---- MODULE Spec2Model ----
(***************************************************************************)
(* SlideGen_AI: the generation request of the generate page                *)
(* (generateContent -> generateSlides -> createProject), the three         *)
(* storage tiers (Firestore `projects`, localStorage `local_projects`,     *)
(* sessionStorage `temp_project_*`) and the dashboard / presentation page  *)
(* operations that read, update, delete and list the stored projects.      *)
(*                                                                         *)
(* Strings the code tests with String.includes are modelled as a message   *)
(* template name plus the set of the tested keywords that the text         *)
(* contains (case-sensitive, as includes is).                              *)
(***************************************************************************)
EXTENDS Integers, Sequences, FiniteSets, TLC

\* ------------------------------------------------------------------ bounds
\* Values Date.now() / the server clock can take (1..MaxClock).
MaxClock == 2
\* Concurrent invocations of generateContent (effect re-runs, second tab).
NumInv == 2
\* How far below zero the model follows users/{uid}.projectCount (deletes of
\* documents whose creation was never counted).
MaxUncounted == 1
\* Slides in a provider response handed to the normalization.
MaxSlides == 2
\* Slides in a deck shown by the SlideViewer.
MaxDeck == 3

\* ------------------------------------------------------- program constants
REQUEST_TIMEOUT_MS == 45000
GENERATION_TIMEOUT_MS == 60000
SAVE_TIMEOUT_MS == 10000
FIRESTORE_TIMEOUT_MS == 15000

Inv == 1..NumInv
Users == {"u1", "u2"}
ApiKeys == {"demo-key", "sk-live", "garbage"}
Types == {"presentation", "planner"}

\* The substrings the code looks for in error messages.
Keywords == {"timeout", "network", "fetch", "JSON", "parse", "API key", "rate limit"}

\* ------------------------------------------------------------ error values
Msg(tpl, words) == [tpl |-> tpl, words |-> words]
NoErr == Msg("", {})
includes(msg, kw) == kw \in msg.words

\* Literal messages of openai.ts with the keywords each one contains.
MsgNoApiKey == Msg("No API key provided. Please set your OpenAI API key.", {"API key"})
MsgBadKeyFormat == Msg("Invalid OpenAI API key format. Please check your API key and try again.", {"API key"})
MsgRequestTimeout == Msg("Request timeout after 45 seconds", {"timeout"})
MsgNoResponse == Msg("No response from OpenAI", {})
MsgParseFailed == Msg("Failed to parse AI response as JSON. The AI may have returned invalid format.", {"parse", "JSON"})
MsgInvalidStructure == Msg("Invalid response structure from OpenAI. Missing title or slides array.", {})
MsgTimedOut == Msg("OpenAI request timed out. Please try again with a shorter prompt or check your internet connection.", {})
MsgNetwork == Msg("Network error connecting to OpenAI. Please check your internet connection.", {})
MsgInvalidFormat == Msg("OpenAI returned invalid format. Please try rephrasing your prompt.", {})
MsgInvalidKey == Msg("Invalid OpenAI API key. Please check your API key and try again.", {"API key"})
MsgRateLimit == Msg("OpenAI rate limit exceeded. Please wait a moment and try again.", {"rate limit"})
MsgServiceError == Msg("OpenAI service error. Please try again in a few minutes.", {})
MsgBadRequest == Msg("Invalid request to OpenAI. Please try a different prompt.", {})
\* `OpenAI API Error: ${error.message}. Please check your API key and try again.`
MsgApiError(inner) ==
    [tpl |-> "OpenAI API Error: " \o inner.tpl \o ". Please check your API key and try again.",
     words |-> inner.words \cup {"API key"}]

\* Literal messages of the generate page.
PageMsgInvalidKey == Msg("Invalid API key. Please check your OpenAI API key in settings.", {"API key"})
PageMsgTimeout == Msg("Request timed out. Please check your internet connection and try again.", {})
PageMsgNetwork == Msg("Network error. Please check your internet connection.", {})
PageMsgRateLimit == Msg("Rate limit exceeded. Please wait a moment and try again.", {"rate limit"})
PageMsgDefault == Msg("Failed to generate content. Please try again.", {})

\* ------------------------------------------------------------------- decks
\* A deck is its origin, its title and its slide list (one entry per slide,
\* the slide's type); the other slide fields pass through storage unchanged.
Deck(origin, title, slides) == [origin |-> origin, title |-> title, slides |-> slides]
NoDeck == Deck("none", "", <<>>)

\* ------------------------------------------------------ fallback synthesizer
\* Prompts are sequences of characters, so that includes / split act on the
\* text as the code does.
\* "Create a presentation about sustainable business practices"
PromptSustainable ==
    <<"C", "r", "e", "a", "t", "e", " ", "a", " ", "p", "r", "e", "s", "e", "n", "t", "a", "t",
      "i", "o", "n", " ", "a", "b", "o", "u", "t", " ", "s", "u", "s", "t", "a", "i", "n", "a",
      "b", "l", "e", " ", "b", "u", "s", "i", "n", "e", "s", "s", " ", "p", "r", "a", "c", "t",
      "i", "c", "e", "s">>
\* "How to bake bread"
PromptHowTo ==
    <<"H", "o", "w", " ", "t", "o", " ", "b", "a", "k", "e", " ", "b", "r", "e", "a", "d">>
\* "Why recycling helps"
PromptWhy ==
    <<"W", "h", "y", " ", "r", "e", "c", "y", "c", "l", "i", "n", "g", " ", "h", "e", "l", "p",
      "s">>
\* "Marketing strategy"
PromptStrategy ==
    <<"M", "a", "r", "k", "e", "t", "i", "n", "g", " ", "s", "t", "r", "a", "t", "e", "g", "y">>
\* "Solar energy basics"
PromptSolar ==
    <<"S", "o", "l", "a", "r", " ", "e", "n", "e", "r", "g", "y", " ", "b", "a", "s", "i", "c",
      "s">>
\* "Create a professional daily planner presentation"
PromptPlanner ==
    <<"C", "r", "e", "a", "t", "e", " ", "a", " ", "p", "r", "o", "f", "e", "s", "s", "i", "o",
      "n", "a", "l", " ", "d", "a", "i", "l", "y", " ", "p", "l", "a", "n", "n", "e", "r", " ",
      "p", "r", "e", "s", "e", "n", "t", "a", "t", "i", "o", "n">>
Prompts ==
    {PromptSustainable, PromptHowTo, PromptWhy, PromptStrategy, PromptSolar, PromptPlanner}

\* String.prototype.toLowerCase on the letters the prompts use.
toLowerCase(s) ==
    [k \in DOMAIN s |->
        CASE s[k] = "C" -> "c"
          [] s[k] = "H" -> "h"
          [] s[k] = "M" -> "m"
          [] s[k] = "S" -> "s"
          [] s[k] = "W" -> "w"
          [] OTHER -> s[k]]

\* String.prototype.includes: sub occurs in s as a substring.
strIncludes(s, sub) ==
    \E k \in 1..(Len(s) - Len(sub) + 1) : SubSeq(s, k, k + Len(sub) - 1) = sub

\* s.split(' ')
RECURSIVE split(_)
split(s) ==
    IF \A k \in DOMAIN s : s[k] # " " THEN <<s>>
    ELSE LET k == CHOOSE j \in DOMAIN s : s[j] = " " /\ \A i \in 1..(j - 1) : s[i] # " "
         IN <<SubSeq(s, 1, k - 1)>> \o split(SubSeq(s, k + 1, Len(s)))

\* words.join(' ')
RECURSIVE join(_)
join(words) ==
    IF words = <<>> THEN <<>>
    ELSE IF Len(words) = 1 THEN words[1]
    ELSE words[1] \o <<" ">> \o join(Tail(words))

stopWords ==
    {<<"c", "r", "e", "a", "t", "e">>,
     <<"m", "a", "k", "e">>,
     <<"g", "e", "n", "e", "r", "a", "t", "e">>,
     <<"a", "b", "o", "u", "t">>,
     <<"o", "n">>,
     <<"f", "o", "r">>,
     <<"p", "r", "e", "s", "e", "n", "t", "a", "t", "i", "o", "n">>,
     <<"s", "l", "i", "d", "e", "s">>,
     <<"a">>,
     <<"a", "n">>,
     <<"t", "h", "e">>,
     <<"a", "n", "d">>,
     <<"o", "r">>,
     <<"b", "u", "t">>}

\* extractMainSubject: the first three words that are no stop word and longer
\* than two characters.
extractMainSubject(prompt) ==
    LET meaningfulWords ==
            SelectSeq(split(toLowerCase(prompt)), LAMBDA w : w \notin stopWords /\ Len(w) > 2)
    IN join(SubSeq(meaningfulWords, 1, IF Len(meaningfulWords) < 3 THEN Len(meaningfulWords) ELSE 3))

\* The phrase groups of analyzePrompt, in the order they are tested.
strategicPhrases ==
    {<<"s", "t", "r", "a", "t", "e", "g", "y">>,
     <<"p", "l", "a", "n">>,
     <<"a", "p", "p", "r", "o", "a", "c", "h">>}
instructionalPhrases ==
    {<<"h", "o", "w", " ", "t", "o">>,
     <<"g", "u", "i", "d", "e">>,
     <<"t", "u", "t", "o", "r", "i", "a", "l">>}
persuasivePhrases ==
    {<<"b", "e", "n", "e", "f", "i", "t", "s">>,
     <<"a", "d", "v", "a", "n", "t", "a", "g", "e", "s">>,
     <<"w", "h", "y">>}
overviewPhrases ==
    {<<"o", "v", "e", "r", "v", "i", "e", "w">>,
     <<"i", "n", "t", "r", "o", "d", "u", "c", "t", "i", "o", "n">>,
     <<"a", "b", "o", "u", "t">>}

\* analyzePrompt(prompt).presentationType
presentationType(prompt) ==
    LET p == toLowerCase(prompt)
        hits(phrases) == \E w \in phrases : strIncludes(p, w)
    IN IF hits(strategicPhrases) THEN "strategic"
       ELSE IF hits(instructionalPhrases) THEN "instructional"
       ELSE IF hits(persuasivePhrases) THEN "persuasive"
       ELSE IF hits(overviewPhrases) THEN "overview"
       ELSE "informational"

\* contentStrategies: the slide templates (their types) of each strategy.
StrategicTypes == <<"hero", "content", "content", "content", "stats", "quote", "image-focus">>
InstructionalTypes == <<"hero", "content", "split", "content", "content", "stats", "image-focus">>
PersuasiveTypes == <<"hero", "content", "split", "stats", "quote", "content", "image-focus">>
OverviewTypes == <<"hero", "content", "split", "stats", "content", "quote", "image-focus">>
\* contentStrategies.informational, the strategy of a prompt with no phrase group.
InformationalTypes ==
    <<"hero", "content", "split", "content", "stats", "content", "quote", "image-focus">>

\* generatePersonalizedContent: contentStrategies[presentationType] || informational
contentStrategy(type) ==
    CASE type = "strategic" -> StrategicTypes
      [] type = "instructional" -> InstructionalTypes
      [] type = "persuasive" -> PersuasiveTypes
      [] type = "overview" -> OverviewTypes
      [] OTHER -> InformationalTypes

\* The text around the subject in the first template's title.
heroTitle(type, subject) ==
    CASE type = "strategic" -> [before |-> "", subject |-> subject, after |-> ": Strategic Approach"]
      [] type = "instructional" -> [before |-> "How to: ", subject |-> subject, after |-> ""]
      [] type = "persuasive" -> [before |-> "Why ", subject |-> subject, after |-> " Matters"]
      [] type = "overview" -> [before |-> "Understanding ", subject |-> subject, after |-> ""]
      [] OTHER -> [before |-> "", subject |-> subject, after |-> ": Complete Guide"]

\* The deck title: `${Subject}: ${PresentationType} Guide`, or the planner's.
deckTitle(type) ==
    CASE type = "strategic" -> "Strategic Guide"
      [] type = "instructional" -> "Instructional Guide"
      [] type = "persuasive" -> "Persuasive Guide"
      [] type = "overview" -> "Overview Guide"
      [] OTHER -> "Informational Guide"

\* The focus of each template of contentStrategies[presentationType] ||
\* informational, in the order of the types.
strategyFoci(type) ==
    CASE type = "strategic" ->
           <<"strategy", "analysis", "objectives", "implementation", "results", "inspiration",
             "action">>
      [] type = "instructional" ->
           <<"guide", "basics", "process", "tips", "pitfalls", "measurement", "action">>
      [] type = "persuasive" ->
           <<"importance", "problem", "solution", "benefits", "testimonial", "action", "cta">>
      [] type = "overview" ->
           <<"introduction", "concepts", "mechanism", "data", "applications", "authority",
             "future">>
      [] OTHER ->
           <<"comprehensive", "overview", "components", "analysis", "data", "practical",
             "insights", "conclusion">>

\* generateSlideContent(slideTemplate, analysis, index): the four lines of the
\* focus's generator, or the four 'Key points' lines of a focus that is no key
\* of contentGenerators. A line is named by its generator and its position.
generateSlideContent(focus) ==
    LET contentGenerators ==
            {"strategy", "analysis", "objectives", "implementation", "results", "guide",
             "basics", "process", "tips", "pitfalls", "problem", "solution", "benefits",
             "concepts", "mechanism", "data", "applications", "components", "practical",
             "comprehensive", "overview", "insights", "conclusion"}
        generator == IF focus \in contentGenerators THEN focus ELSE "key points"
    IN [j \in 1..4 |-> generator \o " #" \o ToString(j)]

\* A slide's content: a list of lines, one string, or absent (undefined).
Content(kind, items) == [kind |-> kind, items |-> items]
NoContent == Content("absent", <<>>)

\* generateFallbackSlides(prompt, isDayPlanner): the planner's single hero
\* slide, or one slide per template of the strategy with id index + 1 and
\* content: type === 'stats' ? content : (type === 'quote' ? content[0] : content).
generateFallbackSlides(prompt, isDayPlanner) ==
    LET subject == extractMainSubject(prompt)
        type == presentationType(prompt)
        templates == contentStrategy(type)
        foci == strategyFoci(type)
        slideContent(slideType, content) ==
            IF slideType = "stats" THEN Content("list", content)
            ELSE IF slideType = "quote" THEN Content("string", <<content[1]>>)
            ELSE Content("list", content)
    IN IF isDayPlanner
         THEN [title |-> "Personalized Daily Planner", subject |-> subject,
               slides |-> <<[id |-> 1, type |-> "hero",
                             title |-> [before |-> "Your ", subject |-> subject, after |-> " Day"],
                             content |-> Content("list", <<>>)]>>]
         ELSE [title |-> deckTitle(type), subject |-> subject,
               slides |-> [k \in DOMAIN templates |->
                             [id |-> (k - 1) + 1, type |-> templates[k],
                              title |-> IF k = 1 THEN heroTitle(type, subject)
                                        ELSE [before |-> "", subject |-> <<>>, after |-> "fixed"],
                              content |-> slideContent(templates[k],
                                                       generateSlideContent(foci[k]))]]]

\* The prompt the generate page passes on (searchParams.get('prompt')).
PagePrompt == PromptSustainable

\* The synthesized deck as the storage tiers see it.
fallbackDeck(isDayPlanner) ==
    LET d == generateFallbackSlides(PagePrompt, isDayPlanner)
    IN Deck("fallback", d.title, [k \in DOMAIN d.slides |-> d.slides[k].type])

\* What the text-generation request can settle with.
RemoteSlideLists == {<<>>, <<"title", "content">>}
ProviderStatuses == {0, 400, 401, 429, 500}
ProviderTexts == {{}, {"timeout"}, {"fetch"}, {"parse"}, {"rate limit"}}
Response(kind, slides, status, words) ==
    [kind |-> kind, slides |-> slides, status |-> status, words |-> words]
NoResponse == Response("none", <<>>, 0, {})
Responses ==
    {Response("deck", s, 0, {}) : s \in RemoteSlideLists}
      \cup {Response(k, <<>>, 0, {}) : k \in {"empty", "badjson", "noslides", "notitle"}}
      \cup {Response("error", <<>>, st, w) : st \in ProviderStatuses, w \in ProviderTexts}

\* The outcome of a call: a deck, or a thrown error (its message and status).
Returned(deck) == [ok |-> TRUE, deck |-> deck, err |-> NoErr, status |-> 0]
Thrown(msg) == [ok |-> FALSE, deck |-> NoDeck, err |-> msg, status |-> 0]
ThrownWithStatus(msg, status) == [ok |-> FALSE, deck |-> NoDeck, err |-> msg, status |-> status]
NoOutcome == [ok |-> FALSE, deck |-> NoDeck, err |-> NoErr, status |-> 0]

\* createOpenAIClient: the error it throws for a key, NoErr when it returns.
createOpenAIClient(apiKey) ==
    IF apiKey = "" THEN MsgNoApiKey
    ELSE IF apiKey = "demo-key" THEN NoErr
    ELSE IF apiKey \notin {"sk-live"} THEN MsgBadKeyFormat
    ELSE NoErr

\* The try block of generateSlides after the race has settled: what it returns
\* or throws for a settled request (rejection, empty content, JSON.parse,
\* structure validation, normalised deck).
tryBody(resp) ==
    CASE resp.kind = "timer" -> Thrown(MsgRequestTimeout)
      [] resp.kind = "error" -> ThrownWithStatus(Msg("provider", resp.words), resp.status)
      [] resp.kind = "empty" -> Thrown(MsgNoResponse)
      [] resp.kind = "badjson" -> Thrown(MsgParseFailed)
      [] resp.kind \in {"noslides", "notitle"} -> Thrown(MsgInvalidStructure)
      [] OTHER -> Returned(Deck("remote", "Remote title", resp.slides))

\* ----------------------------------------------------------- normalization
\* A slide of the parsed response is the function from the keys the provider
\* supplied to their values (id a number, content a list, the others text).
NormalizedFields == {"id", "type", "title", "subtitle", "content", "speakerNotes", "animation"}

\* JavaScript truthiness of a supplied value ([] is truthy).
truthy(f, v) ==
    CASE f = "id" -> v # 0
      [] f = "content" -> TRUE
      [] OTHER -> v # ""

SlideLabels == <<"Slide 1", "Slide 2", "Slide 3", "Slide 4">>

\* The right-hand sides of the `||` expressions for the slide at `index` (0-based).
defaultValue(f, index) ==
    CASE f = "id" -> index + 1
      [] f = "type" -> "content"
      [] f = "title" -> SlideLabels[index + 1]
      [] f = "content" -> <<>>
      [] f = "animation" -> "fadeIn"
      [] OTHER -> ""

\* { id: slide.id || index + 1, ..., animation: slide.animation || 'fadeIn' }
withDefaults(slide, index) ==
    [f \in NormalizedFields |->
        IF f \in DOMAIN slide /\ truthy(f, slide[f]) THEN slide[f] ELSE defaultValue(f, index)]

\* The object literal without its trailing spread (the behaviour C11 excludes).
normalizeSlideNoSpread(slide, index) == withDefaults(slide, index)

\* The object literal of the map callback: the defaults, then ...slide.
normalizeSlide(slide, index) ==
    [f \in NormalizedFields \cup DOMAIN slide |->
        IF f \in DOMAIN slide THEN slide[f] ELSE withDefaults(slide, index)[f]]

\* parsedContent.slides.map((slide, index) => ...)
normalizeSlides(slides) == [k \in DOMAIN slides |-> normalizeSlide(slides[k], k - 1)]

\* Provider slides: every key either absent or supplied, falsy values included.
Absent == "<absent>"
RawSlides ==
    [id : {-1, 0, 5}, title : {Absent, "", "Intro"}, type : {Absent, "quote"},
     animation : {Absent, "zoomIn"}, layout : {Absent, "split"}]
supplied(raw) ==
    [f \in {g \in DOMAIN raw : IF g = "id" THEN raw[g] # -1 ELSE raw[g] # Absent} |-> raw[f]]
ProviderSlides == {supplied(raw) : raw \in RawSlides}
ProviderSlideLists ==
    UNION {[1..n -> ProviderSlides] : n \in 1..MaxSlides}

\* ---------------------------------------------------------------- renderSlide
\* A slide handed to renderSlide: every key of the Slide interface the renderer
\* reads, Absent for undefined.  The contents the renderer is tried on.
RenderSlides ==
    [type : {"hero", "title", "split", "quote", "stats", "image-focus", "content", "section",
             "image"},
     title : {"Welcome"}, subtitle : {Absent, "Sub"},
     content : {NoContent, Content("string", <<"">>), Content("string", <<"Plain text">>),
                Content("list", <<>>), Content("list", <<"85% faster", "Second point">>)},
     author : {Absent, "Industry Expert"},
     backgroundStyle : {Absent, "gradient", "image", "split-color"},
     imageUrl : {Absent, "https://img"},
     styling : [overlay : {Absent, "dark", "light", "none"}, titleSize : {Absent}]]

\* slideData.theme: the theme of a synthesized deck and the one of the tests.
Themes ==
    {[primaryColor |-> "#1e3a8a", secondaryColor |-> "#3b82f6", backgroundColor |-> "#ffffff",
      textColor |-> "#1f2937", fontFamily |-> "Inter", accentColor |-> "#d97706",
      gradientStart |-> "#1e3a8a", gradientEnd |-> "#3b82f6", headingFont |-> "Montserrat",
      bodyFont |-> "Open Sans"],
     [primaryColor |-> "#0891b2", secondaryColor |-> "#0f766e", backgroundColor |-> "#ffffff",
      textColor |-> "#1e293b", fontFamily |-> "Inter", accentColor |-> Absent,
      gradientStart |-> Absent, gradientEnd |-> Absent, headingFont |-> Absent,
      bodyFont |-> Absent]}

\* a || b on optional strings.
orElse(a, b) == IF a = Absent \/ a = "" THEN b ELSE a

\* getBackgroundStyle(): the background treatment of baseStyle.
getBackgroundStyle(slide, theme) ==
    LET fill ==
          CASE slide.backgroundStyle = "gradient" ->
                 [kind |-> "gradient", from |-> orElse(theme.gradientStart, theme.primaryColor),
                  to |-> orElse(theme.gradientEnd, theme.secondaryColor)]
            [] slide.backgroundStyle = "image" ->
                 IF orElse(slide.imageUrl, Absent) # Absent
                   THEN [kind |-> "image", from |-> slide.imageUrl, to |-> "cover"]
                   ELSE [kind |-> "none", from |-> "", to |-> ""]
            [] slide.backgroundStyle = "split-color" ->
                 [kind |-> "split-color", from |-> theme.primaryColor,
                  to |-> theme.backgroundColor]
            [] OTHER -> [kind |-> "color", from |-> theme.backgroundColor, to |-> ""]
    IN [fontFamily |-> orElse(theme.bodyFont, orElse(theme.fontFamily, "Inter")),
        color |-> theme.textColor, fill |-> fill]

\* getOverlayStyle(): the overlay, its opacity in tenths; {} when there is none.
getOverlayStyle(slide) ==
    IF slide.backgroundStyle = "image" /\ orElse(slide.styling.overlay, Absent) # Absent
      THEN [present |-> TRUE,
            opacity |-> IF slide.styling.overlay = "dark" THEN 6 ELSE 3,
            color |-> IF slide.styling.overlay = "dark" THEN "black" ELSE "white"]
      ELSE [present |-> FALSE, opacity |-> 0, color |-> ""]

\* The text block of a case of the switch.
Block(layout, titleSize, subtitle, body, image, cite) ==
    [layout |-> layout, titleSize |-> titleSize, subtitle |-> subtitle, body |-> body,
     image |-> image, cite |-> cite]
Body(kind, items) == [kind |-> kind, items |-> items]

\* slide.content && (Array.isArray(slide.content) ? <ul> : <p>); a list is
\* truthy even when empty.
contentBody(c) ==
    IF ~(c.kind = "list" \/ (c.kind = "string" /\ c.items # <<"">>)) THEN Body("none", <<>>)
    ELSE IF c.kind = "list" THEN Body("bullets", c.items)
    ELSE Body("paragraph", c.items)

\* Array.isArray(slide.content) ? slide.content.join(' ') : slide.content
RECURSIVE joinText(_)
joinText(items) ==
    IF items = <<>> THEN ""
    ELSE IF Len(items) = 1 THEN items[1]
    ELSE items[1] \o " " \o joinText(Tail(items))

\* A switch whose default case is the hero layout (the behaviour C23 excludes).
textBlockHeroDefault(slide) ==
    LET size(d) == orElse(slide.styling.titleSize, d)
        subtitle == orElse(slide.subtitle, Absent)
    IN CASE slide.type = "split" ->
              Block("split", size("4xl"), Absent, contentBody(slide.content),
                    orElse(slide.imageUrl, Absent), Absent)
         [] slide.type = "quote" ->
              Block("quote", size("4xl"), Absent, Body("quote", <<joinText(slide.content.items)>>), Absent,
                    orElse(slide.author, Absent))
         [] slide.type = "stats" ->
              Block("stats", size("4xl"), Absent,
                    IF slide.content.kind = "list" THEN Body("grid", slide.content.items)
                    ELSE Body("none", <<>>),
                    Absent, Absent)
         [] slide.type = "image-focus" ->
              Block("image-focus", size("4xl"), subtitle, Body("none", <<>>), Absent, Absent)
         [] slide.type = "content" ->
              Block("content", size("4xl"), Absent, contentBody(slide.content), Absent, Absent)
         [] OTHER ->
              Block("hero", size("5xl"), subtitle, Body("none", <<>>), Absent, Absent)

\* switch (slide.type): the text block of each case; 'content' is the default.
textBlock(slide) ==
    LET size(d) == orElse(slide.styling.titleSize, d)
        subtitle == orElse(slide.subtitle, Absent)
    IN CASE slide.type \in {"hero", "title"} ->
              Block("hero", size("5xl"), subtitle, Body("none", <<>>), Absent, Absent)
         [] slide.type = "split" ->
              Block("split", size("4xl"), Absent, contentBody(slide.content),
                    orElse(slide.imageUrl, Absent), Absent)
         [] slide.type = "quote" ->
              Block("quote", size("4xl"), Absent, Body("quote", <<joinText(slide.content.items)>>), Absent,
                    orElse(slide.author, Absent))
         [] slide.type = "stats" ->
              Block("stats", size("4xl"), Absent,
                    IF slide.content.kind = "list" THEN Body("grid", slide.content.items)
                    ELSE Body("none", <<>>),
                    Absent, Absent)
         [] slide.type = "image-focus" ->
              Block("image-focus", size("4xl"), subtitle, Body("none", <<>>), Absent, Absent)
         [] OTHER ->
              Block("content", size("4xl"), Absent, contentBody(slide.content), Absent, Absent)

\* renderSlide(slide) with theme = slideData.theme.
renderSlide(slide, theme) ==
    [background |-> getBackgroundStyle(slide, theme), overlay |-> getOverlayStyle(slide),
     block |-> textBlock(slide)]


\* A catch block whose last branch substitutes the synthesized deck for the
\* error (the behaviour C2 excludes).
catchBlockFallback(e) ==
    IF includes(e.err, "timeout") THEN Thrown(MsgTimedOut)
    ELSE IF includes(e.err, "network") \/ includes(e.err, "fetch") THEN Thrown(MsgNetwork)
    ELSE IF includes(e.err, "JSON") \/ includes(e.err, "parse") THEN Thrown(MsgInvalidFormat)
    ELSE IF e.status = 401 THEN Thrown(MsgInvalidKey)
    ELSE IF e.status = 429 THEN Thrown(MsgRateLimit)
    ELSE IF e.status = 500 THEN Thrown(MsgServiceError)
    ELSE IF e.status = 400 THEN Thrown(MsgBadRequest)
    ELSE Returned(fallbackDeck(FALSE))

\* The catch block of generateSlides: every error is rethrown, classified by
\* message text first and by status after.
catchBlock(e) ==
    IF includes(e.err, "timeout") THEN Thrown(MsgTimedOut)
    ELSE IF includes(e.err, "network") \/ includes(e.err, "fetch") THEN Thrown(MsgNetwork)
    ELSE IF includes(e.err, "JSON") \/ includes(e.err, "parse") THEN Thrown(MsgInvalidFormat)
    ELSE IF e.status = 401 THEN Thrown(MsgInvalidKey)
    ELSE IF e.status = 429 THEN Thrown(MsgRateLimit)
    ELSE IF e.status = 500 THEN Thrown(MsgServiceError)
    ELSE IF e.status = 400 THEN Thrown(MsgBadRequest)
    ELSE Thrown(MsgApiError(e.err))

\* generateSlides once its request has settled with resp (or the 45 s timer
\* won: resp.kind = "timer").
generateSlidesSettled(resp) ==
    LET r == tryBody(resp) IN IF r.ok THEN r ELSE catchBlock(r)

\* generateSlides before any suspension: the demo deck, a client-construction
\* error, or NoOutcome when the request has been issued and is awaited.
generateSlidesEntry(apiKey, isDayPlanner) ==
    IF apiKey = "demo-key" THEN Returned(fallbackDeck(isDayPlanner))
    ELSE IF createOpenAIClient(apiKey) # NoErr THEN Thrown(createOpenAIClient(apiKey))
    ELSE NoOutcome

\* ------------------------------------------------------------ user message
\* Texts built from templates are sequences of their pieces (template text
\* and interpolated values), so that a value is part of a text iff it occurs
\* in the sequence.
\* The task lists of the planner page (generatePlannerSlides needs one task).
PlannerTasks ==
    LET Task(time, title, duration, priority) ==
            [time |-> time, title |-> title, duration |-> duration, priority |-> priority]
        TaskStandup == Task("09:00", "Team standup", "30", "high")
        TaskReport == Task("14:00", "Write report", "60", "medium")
    IN {<<TaskStandup>>, <<TaskStandup, TaskReport>>}
PlannerDate == "2025-01-15"

\* lines.join('\n')
RECURSIVE joinLines(_)
joinLines(lines) ==
    IF lines = <<>> THEN <<>>
    ELSE IF Len(lines) = 1 THEN lines[1]
    ELSE lines[1] \o <<"\n">> \o joinLines(Tail(lines))

\* plannerPrompt of the planner page, the prompt it puts in the URL of the
\* generate page.
plannerPrompt(tasks, plannerDate) ==
    LET line(task) ==
            <<"- ", task.time, ": ", task.title, " (", task.duration, " minutes, ",
              task.priority, " priority)">>
    IN <<"Create a daily planner presentation for ", plannerDate,
         " with the following tasks:\n\n">>
         \o joinLines([k \in DOMAIN tasks |-> line(tasks[k])])
         \o <<"\n\nInclude slides for: ... Make it professional, organized, and motivating">>

\* The prompt generateDayPlanner(apiKey, tasks, date) hands to generateSlides.
generateDayPlanner(tasks, date) ==
    LET line(task) ==
            <<task.time, ": ", task.title, " (", task.duration, " min, ", task.priority,
              " priority)">>
    IN <<"Create a professional daily planner presentation for ", date, " with these tasks:\n\n">>
         \o joinLines([k \in DOMAIN tasks |-> line(tasks[k])])
         \o <<"\n\nGenerate a comprehensive daily schedule with time management tips, priority focus areas, and motivational elements.">>

\* The prompt generateContent(prompt, type) hands to generateSlides: its own
\* for a presentation, generateDayPlanner(apiKey, [], today) for a planner.
generationPrompt(prompt, type, today) ==
    IF type = "planner" THEN generateDayPlanner(<<>>, today) ELSE prompt

\* The content of the user message generateSlides sends, <<>> with sent FALSE
\* when it sends no request (demo key, client construction error).
userMessage(apiKey, prompt) ==
    IF generateSlidesEntry(apiKey, FALSE) = NoOutcome
      THEN [sent |-> TRUE, content |-> prompt]
      ELSE [sent |-> FALSE, content |-> <<>>]

\* The catch block of generateContent: the message the page shows.
pageErrorMessage(e) ==
    IF includes(e.err, "API key") THEN PageMsgInvalidKey
    ELSE IF includes(e.err, "timeout") THEN PageMsgTimeout
    ELSE IF includes(e.err, "network") THEN PageMsgNetwork
    ELSE IF includes(e.err, "rate limit") THEN PageMsgRateLimit
    ELSE IF e.err.tpl # "" THEN e.err
    ELSE PageMsgDefault

\* ------------------------------------------------------------------- state
VARIABLES
    now,            \* Date.now() and the server clock
    gen,            \* per invocation of generateContent: its position and locals
    cp,             \* per invocation: its createProject call and the two writes
    fsDocs,         \* Firestore collection `projects`
    fsNext,         \* next auto-generated Firestore document id
    projectCount,   \* users/{uid}.projectCount
    localProjects,  \* localStorage['local_projects'], parsed
    sessionStore,   \* sessionStorage entries temp_project_<id>, parsed
    pureCall,       \* one call of a pure function: its arguments and its result
    viewer,         \* the SlideViewer component: its slideData prop and its state
    view            \* the page the tab shows besides the generate page: the
                    \* presentation page (params.id, project, slideData, error)
                    \* or the dashboard (projects), with the signed-in user

vars ==
    <<now, gen, cp, fsDocs, fsNext, projectCount, localProjects, sessionStore, pureCall, viewer,
      view>>

\* Project ids: the tier prefix and the rest of the id.
Id(pfx, n) == [pfx |-> pfx, n |-> n]
NoId == Id("none", 0)
startsWith(id, pfx) == id.pfx = pfx

\* createdAt / updatedAt values: a Firestore Timestamp, a Date, or the ISO
\* string JSON.stringify turns a Date into.
Stamp(rep, t) == [rep |-> rep, t |-> t]
JSONStamp(s) == IF s.rep = "Date" THEN Stamp("string", s.t) ELSE s
\* JSON.parse(JSON.stringify(project))
JSONRoundTrip(p) ==
    [p EXCEPT !.createdAt = JSONStamp(p.createdAt), !.updatedAt = JSONStamp(p.updatedAt)]

\* slideData.slides?.length || 0
slideCountOf(deck) == Len(deck.slides)

\* projectData of createProject as stored by addDoc (serverTimestamp resolved).
projectData(id, userId, deck, type, t) ==
    [id |-> id, userId |-> userId, slideData |-> deck, slideCount |-> slideCountOf(deck),
     type |-> type, createdAt |-> Stamp("Timestamp", t), updatedAt |-> Stamp("Timestamp", t)]

\* localProject of createProject's catch block.
localProject(userId, deck, type, t) ==
    [id |-> Id("local_", t), userId |-> userId, slideData |-> deck,
     slideCount |-> slideCountOf(deck), type |-> type,
     createdAt |-> Stamp("Date", t), updatedAt |-> Stamp("Date", t)]

\* tempProject of generateContent's save fallback (no slideCount, no dates).
tempProject(userId, deck, type, t) ==
    [id |-> Id("temp_", t), userId |-> userId, slideData |-> deck, type |-> type]

\* sessionStorage.setItem(key, value): one entry per key.
sessionSetItem(store, p) == {q \in store : q.id # p.id} \cup {p}

NoView ==
    [kind |-> "none", id |-> NoId, uid |-> "", outcome |-> "none", deck |-> NoDeck,
     queried |-> FALSE, last |-> "none", projects |-> <<>>]

NoCall ==
    [op |-> "none", done |-> FALSE, slides |-> <<>>, normalized |-> <<>>,
     prompt |-> <<>>, isDayPlanner |-> FALSE, deck |-> NoDeck,
     slide |-> [type |-> "", title |-> "", subtitle |-> Absent, content |-> NoContent,
                author |-> Absent, backgroundStyle |-> Absent, imageUrl |-> Absent,
                styling |-> [overlay |-> Absent, titleSize |-> Absent]],
     theme |-> CHOOSE t \in Themes : TRUE,
     layout |-> [background |-> [fontFamily |-> "", color |-> "",
                                 fill |-> [kind |-> "", from |-> "", to |-> ""]],
                 overlay |-> [present |-> FALSE, opacity |-> 0, color |-> ""],
                 block |-> Block("", "", Absent, Body("none", <<>>), Absent, Absent)],
     apiKey |-> "", type |-> "presentation", tasks |-> <<>>,
     message |-> [sent |-> FALSE, content |-> <<>>]]

\* requests / calls count the text-generation requests and the createProject
\* calls the invocation has issued; trigger is what started it.
\* No SlideViewer is mounted.
NoViewer ==
    [mounted |-> FALSE, slides |-> <<>>, currentSlide |-> 0, isPresenting |-> FALSE,
     listener |-> [on |-> FALSE, currentSlide |-> 0, length |-> 0], crashed |-> FALSE,
     last |-> "none"]

IdleGen ==
    [pc |-> "idle", apiKey |-> "", type |-> "presentation", uid |-> "", req |-> "none",
     resp |-> NoResponse, gs |-> NoOutcome, shown |-> NoErr, projectId |-> NoId,
     requests |-> 0, trigger |-> "none"]
IdleCp ==
    [pc |-> "none", write |-> "none", cnt |-> "none", docId |-> NoId, ret |-> NoId, calls |-> 0]

\* The stores and the pages before anything has run.
PipelineInit ==
    /\ now = 1
    /\ gen = [i \in Inv |-> IdleGen]
    /\ cp = [i \in Inv |-> IdleCp]
    /\ fsDocs = {}
    /\ fsNext = 1
    /\ projectCount = [u \in Users |-> 0]
    /\ localProjects = <<>>
    /\ sessionStore = {}
    /\ view = NoView

Init ==
    /\ PipelineInit
    /\ pureCall = NoCall
    /\ viewer = NoViewer

\* ------------------------------------------- generateContent / generateSlides
\* generateContent after generateSlides settled with outcome r: on a deck it
\* calls createProject (addDoc issued, both save timers armed); on an error
\* its catch block shows the message.
afterGenerate(g, r) ==
    IF r.ok
      THEN [g EXCEPT !.pc = "awaitSave", !.gs = r]
      ELSE [g EXCEPT !.pc = "error", !.gs = r, !.shown = pageErrorMessage(r)]

cpAfterGenerate(c, r) ==
    IF r.ok THEN [c EXCEPT !.pc = "addDoc", !.write = "pending", !.calls = @ + 1] ELSE c

\* generateContent(prompt, type) up to its first suspension, as invocation i;
\* uid is the signed-in user (useAuth().user.uid) the invocation closes over.
generateContent(i, uid, apiKey, type, trigger) ==
    /\ LET e == generateSlidesEntry(apiKey, type = "planner")
           g == [gen[i] EXCEPT !.apiKey = apiKey, !.type = type, !.uid = uid,
                               !.trigger = trigger]
       IN IF e = NoOutcome
            THEN /\ gen' = [gen EXCEPT ![i] = [g EXCEPT !.pc = "awaitGen", !.req = "pending",
                                                          !.requests = @ + 1]]
                 /\ cp' = cp
            ELSE /\ gen' = [gen EXCEPT ![i] = afterGenerate(g, e)]
                 /\ cp' = [cp EXCEPT ![i] = cpAfterGenerate(cp[i], e)]
    /\ UNCHANGED <<viewer, pureCall, now, fsDocs, fsNext, projectCount, localProjects, sessionStore, view>>

\* The effect of the generate page calls generateContent.
StartGenerate(i, uid, apiKey, type) ==
    /\ gen[i].pc = "idle"
    /\ generateContent(i, uid, apiKey, type, "effect")

\* The 'Try Again' button of the error view of invocation i: generateContent
\* is called again with the page's parameters, as the new invocation j.
TryAgain(i, j) ==
    /\ gen[i].pc = "error"
    /\ gen[j].pc = "idle"
    /\ generateContent(j, gen[i].uid, gen[i].apiKey, gen[i].type, "tryAgain")

\* A request that is issued again when the provider answers 429 (the
\* behaviour C21 excludes).
RequestSettlesRetrying(i, resp) ==
    /\ gen[i].req = "pending"
    /\ IF gen[i].pc = "awaitGen" /\ resp.kind = "error" /\ resp.status = 429
         THEN /\ gen' = [gen EXCEPT ![i].requests = @ + 1]
              /\ cp' = cp
         ELSE IF gen[i].pc = "awaitGen"
           THEN LET r == generateSlidesSettled(resp)
                    g == [gen[i] EXCEPT !.req = "settled", !.resp = resp]
                IN /\ gen' = [gen EXCEPT ![i] = afterGenerate(g, r)]
                   /\ cp' = [cp EXCEPT ![i] = cpAfterGenerate(cp[i], r)]
           ELSE /\ gen' = [gen EXCEPT ![i].req = "settled"]
                /\ cp' = cp
    /\ UNCHANGED <<viewer, pureCall, now, fsDocs, fsNext, projectCount, localProjects, sessionStore, view>>

\* A request whose completion is acted upon even after the 45 s timer has won
\* (the behaviour C9 excludes).
RequestSettlesLate(i, resp) ==
    /\ gen[i].req = "pending"
    /\ LET r == generateSlidesSettled(resp)
           g == [gen[i] EXCEPT !.req = "settled",
                               !.resp = IF gen[i].pc = "awaitGen" THEN resp ELSE @]
       IN /\ gen' = [gen EXCEPT ![i] = afterGenerate(g, r)]
          /\ cp' = [cp EXCEPT ![i] = cpAfterGenerate(cp[i], r)]
    /\ UNCHANGED <<viewer, pureCall, now, fsDocs, fsNext, projectCount, localProjects, sessionStore, view>>

\* The text-generation request settles with resp. If generateSlides is still
\* awaiting the race it goes on with it; if the 45 s timer has won, the
\* settled promise has no reader.
RequestSettles(i, resp) ==
    /\ gen[i].req = "pending"
    /\ IF gen[i].pc = "awaitGen"
         THEN LET r == generateSlidesSettled(resp)
                  g == [gen[i] EXCEPT !.req = "settled", !.resp = resp]
              IN /\ gen' = [gen EXCEPT ![i] = afterGenerate(g, r)]
                 /\ cp' = [cp EXCEPT ![i] = cpAfterGenerate(cp[i], r)]
         ELSE /\ gen' = [gen EXCEPT ![i].req = "settled"]
              /\ cp' = cp
    /\ UNCHANGED <<viewer, pureCall, now, fsDocs, fsNext, projectCount, localProjects, sessionStore, view>>

\* The 45 s timer of generateSlides rejects while the request is pending.
\* (The page's own 60 s timer is armed after it and never settles the race.)
RequestTimerFires(i) ==
    /\ gen[i].pc = "awaitGen"
    /\ REQUEST_TIMEOUT_MS < GENERATION_TIMEOUT_MS
    /\ LET resp == Response("timer", <<>>, 0, {})
           r == generateSlidesSettled(resp)
       IN gen' = [gen EXCEPT ![i] = afterGenerate([gen[i] EXCEPT !.resp = resp], r)]
    /\ UNCHANGED <<viewer, pureCall, now, cp, fsDocs, fsNext, projectCount, localProjects, sessionStore, view>>

\* ------------------------------------------------------------ createProject
\* The page's continuation once its save race settles: the id createProject
\* returned, or (createProject threw, or the 10 s timer won) the temp_ record
\* in sessionStorage.  No effect when the page is no longer awaiting the race.
pageAfterSave(g, ok, id, t) ==
    IF g.pc # "awaitSave" THEN g
    ELSE IF ok THEN [g EXCEPT !.pc = "done", !.projectId = id]
    ELSE [g EXCEPT !.pc = "done", !.projectId = Id("temp_", t)]

sessionAfterSave(store, g, ok, t) ==
    IF g.pc = "awaitSave" /\ ~ok
      THEN sessionSetItem(store, tempProject(g.uid, g.gs.deck, g.type, t))
      ELSE store

\* createProject returns id (ok) or throws (~ok), and the page goes on.
cpSettles(i, c, ok, id) ==
    /\ cp' = [cp EXCEPT ![i] = [c EXCEPT !.pc = IF ok THEN "returned" ELSE "threw", !.ret = id]]
    /\ gen' = [gen EXCEPT ![i] = pageAfterSave(gen[i], ok, id, now)]
    /\ sessionStore' = sessionAfterSave(sessionStore, gen[i], ok, now)

\* The catch block of createProject: the record goes to localStorage and its
\* local_ id is returned; if localStorage throws, createProject throws.
catchCreate(i, c, storageOk) ==
    IF storageOk
      THEN /\ localProjects' =
                Append(localProjects,
                       JSONRoundTrip(localProject(gen[i].uid, gen[i].gs.deck, gen[i].type, now)))
           /\ cpSettles(i, c, TRUE, Id("local_", now))
      ELSE /\ localProjects' = localProjects
           /\ cpSettles(i, c, FALSE, NoId)

\* addDoc succeeds at the server: the document exists from now on.  If
\* createProject still awaits it, the counter increment is issued.
AddDocSucceeds(i) ==
    /\ cp[i].write = "pending"
    /\ fsDocs' = fsDocs \cup
          {projectData(Id("", fsNext), gen[i].uid, gen[i].gs.deck, gen[i].type, now)}
    /\ fsNext' = fsNext + 1
    /\ cp' = [cp EXCEPT ![i] =
          IF cp[i].pc = "addDoc"
            THEN [@ EXCEPT !.write = "ok", !.pc = "counter", !.cnt = "pending",
                           !.docId = Id("", fsNext)]
            ELSE [@ EXCEPT !.write = "ok"]]
    /\ UNCHANGED <<viewer, pureCall, now, gen, projectCount, localProjects, sessionStore, view>>

\* addDoc is rejected with error code `code`.
AddDocFails(i, code, storageOk) ==
    /\ cp[i].write = "pending"
    /\ LET c == [cp[i] EXCEPT !.write = code]
       IN IF cp[i].pc = "addDoc"
            THEN catchCreate(i, c, storageOk)
            ELSE /\ cp' = [cp EXCEPT ![i] = c]
                 /\ UNCHANGED <<gen, localProjects, sessionStore, view>>
    /\ UNCHANGED <<viewer, pureCall, now, fsDocs, fsNext, projectCount, view>>

\* The 15 s timer of createProject rejects while addDoc is pending.  It is
\* armed together with the page's 10 s timer, which therefore fired before.
WriteTimerFires(i, storageOk) ==
    /\ cp[i].pc = "addDoc"
    /\ SAVE_TIMEOUT_MS < FIRESTORE_TIMEOUT_MS => gen[i].pc # "awaitSave"
    /\ catchCreate(i, cp[i], storageOk)
    /\ UNCHANGED <<viewer, pureCall, now, fsDocs, fsNext, projectCount, view>>

\* The page's 10 s save timer rejects while createProject is pending.
SaveTimerFires(i) ==
    /\ gen[i].pc = "awaitSave"
    /\ gen' = [gen EXCEPT ![i] = pageAfterSave(gen[i], FALSE, NoId, now)]
    /\ sessionStore' = sessionAfterSave(sessionStore, gen[i], FALSE, now)
    /\ UNCHANGED <<viewer, pureCall, now, cp, fsDocs, fsNext, projectCount, localProjects, view>>

\* A counter increment whose rejection fails the whole call (the behaviour
\* C13 excludes).
CounterSettlesFailing(i, ok) ==
    /\ cp[i].cnt = "pending"
    /\ projectCount' =
          IF ok THEN [projectCount EXCEPT ![gen[i].uid] = @ + 1] ELSE projectCount
    /\ LET c == [cp[i] EXCEPT !.cnt = IF ok THEN "ok" ELSE "failed"]
       IN IF cp[i].pc = "counter"
            THEN IF ok
                   THEN /\ cpSettles(i, c, TRUE, c.docId)
                        /\ localProjects' = localProjects
                   ELSE catchCreate(i, c, TRUE)
            ELSE /\ cp' = [cp EXCEPT ![i] = c]
                 /\ UNCHANGED <<gen, sessionStore, localProjects>>
    /\ UNCHANGED <<viewer, pureCall, now, fsDocs, fsNext, view>>

\* updateDoc(users/uid, projectCount: increment(1)) settles; applied at the
\* server when ok.  createProject returns the document id either way.
CounterSettles(i, ok) ==
    /\ cp[i].cnt = "pending"
    /\ projectCount' =
          IF ok THEN [projectCount EXCEPT ![gen[i].uid] = @ + 1] ELSE projectCount
    /\ LET c == [cp[i] EXCEPT !.cnt = IF ok THEN "ok" ELSE "failed"]
       IN IF cp[i].pc = "counter"
            THEN cpSettles(i, c, TRUE, c.docId)
            ELSE /\ cp' = [cp EXCEPT ![i] = c]
                 /\ UNCHANGED <<gen, sessionStore, view>>
    /\ UNCHANGED <<viewer, pureCall, now, fsDocs, fsNext, localProjects, view>>

\* The 5 s timer of the counter increment rejects; the error is swallowed.
CounterTimerFires(i) ==
    /\ cp[i].pc = "counter"
    /\ cp[i].cnt = "pending"
    /\ cpSettles(i, cp[i], TRUE, cp[i].docId)
    /\ UNCHANGED <<viewer, pureCall, now, fsDocs, fsNext, projectCount, localProjects, view>>

\* ------------------------------------------------------------ presentation
\* localProjects.find(p => p.id === projectId): the first match, {} if none.
RECURSIVE find(_, _)
find(projects, id) ==
    IF projects = <<>> THEN {}
    ELSE IF Head(projects).id = id THEN {Head(projects)}
    ELSE find(Tail(projects), id)

\* getProject reads localStorage only for a local_ id found there; in every
\* other case it goes on to getDoc (raced against the 10 s timer).
getProjectQueries(locals, id) ==
    ~(startsWith(id, "local_") /\ find(locals, id) # {})

\* getProject's result when it does not throw: {record}, or {} for null.
getProject(locals, docs, id) ==
    IF startsWith(id, "local_") /\ find(locals, id) # {}
      THEN find(locals, id)
      ELSE {d \in docs : d.id = id}

\* loadPresentation: the temp_ entry of sessionStorage if there is one, else
\* getProject and the ownership check.  db is how the getDoc race against the
\* 10 s timer ends ("ok", or the rejection getProject rethrows).
loadPresentation(session, locals, docs, id, uid, db) ==
    LET pv == [NoView EXCEPT !.kind = "presentation", !.id = id, !.uid = uid]
        temp == {p \in session : p.id = id}
        q == getProjectQueries(locals, id)
        found == getProject(locals, docs, id)
    IN IF startsWith(id, "temp_") /\ temp # {}
         THEN [pv EXCEPT !.outcome = "shown", !.deck = (CHOOSE p \in temp : TRUE).slideData]
       ELSE IF q /\ db # "ok"
         THEN [pv EXCEPT !.outcome = "error", !.queried = TRUE]
       ELSE IF found = {}
         THEN [pv EXCEPT !.outcome = "notfound", !.queried = q]
       ELSE IF (CHOOSE r \in found : TRUE).userId # uid
         THEN [pv EXCEPT !.outcome = "denied", !.queried = q]
       ELSE [pv EXCEPT !.outcome = "shown", !.queried = q,
                       !.deck = (CHOOSE r \in found : TRUE).slideData]

LoadPresentation(id, uid, db) ==
    /\ view' = loadPresentation(sessionStore, localProjects, fsDocs, id, uid, db)
    /\ UNCHANGED <<viewer, pureCall, now, gen, cp, fsDocs, fsNext, projectCount, localProjects, sessionStore>>

\* updateProject: updateDoc(projects/id, {...updates, updatedAt}) whatever the
\* id's prefix; rejected when the database fails or holds no such document.
updateProjectOk(docs, id, db) == db = "ok" /\ \E d \in docs : d.id = id

updateProject(docs, id, deck, count, t) ==
    {IF d.id = id
       THEN [d EXCEPT !.slideData = deck, !.slideCount = count,
                      !.updatedAt = Stamp("Timestamp", t)]
       ELSE d : d \in docs}

\* handleSlideUpdate(updatedSlideData) on the page showing a project: the
\* page shows the new deck and updateProject is called (queried: a database
\* request was issued); a rejection ends in the alert.  While updateDoc has
\* not answered (db = "pending") the handler stays at its await, saving set.
HandleSlideUpdate(deck, db) ==
    /\ view.kind = "presentation"
    /\ view.outcome = "shown"
    /\ IF db = "pending"
         THEN /\ fsDocs' = fsDocs
              /\ view' = [view EXCEPT !.deck = deck, !.last = "saving", !.queried = TRUE]
       ELSE IF updateProjectOk(fsDocs, view.id, db)
         THEN /\ fsDocs' = updateProject(fsDocs, view.id, deck, slideCountOf(deck), now)
              /\ view' = [view EXCEPT !.deck = deck, !.last = "saved", !.queried = TRUE]
         ELSE /\ fsDocs' = fsDocs
              /\ view' = [view EXCEPT !.deck = deck, !.last = "save failed", !.queried = TRUE]
    /\ UNCHANGED <<viewer, pureCall, now, gen, cp, fsNext, projectCount, localProjects, sessionStore>>

\* --------------------------------------------------------------- dashboard
\* The enumerations of a finite set (an unspecified iteration order).
Perms(S) ==
    {f \in [1..Cardinality(S) -> S] : \A a, b \in 1..Cardinality(S) : a # b => f[a] # f[b]}

\* getUserProjects when the query succeeds: the user's documents ordered by
\* updatedAt descending (ties in any order).
getUserProjects(docs, uid) ==
    {f \in Perms({d \in docs : d.userId = uid}) :
        \A a, b \in DOMAIN f : a < b => f[a].updatedAt.t >= f[b].updatedAt.t}

\* The date loadProjects' comparator gives a record: a Date is used as it is,
\* a value with toDate() is converted, anything else is new Date(0).
sortDate(p) ==
    IF p.createdAt.rep = "Date" THEN p.createdAt.t
    ELSE IF p.createdAt.rep = "Timestamp" THEN p.createdAt.t
    ELSE 0

\* allProjects.sort((a, b) => dateB - dateA): stable, newest date first.
RECURSIVE insertByDate(_, _)
insertByDate(p, sorted) ==
    IF sorted = <<>> THEN <<p>>
    ELSE IF sortDate(Head(sorted)) >= sortDate(p)
      THEN <<Head(sorted)>> \o insertByDate(p, Tail(sorted))
      ELSE <<p>> \o sorted

RECURSIVE sortByDate(_)
sortByDate(ps) ==
    IF ps = <<>> THEN <<>>
    ELSE insertByDate(ps[Len(ps)], sortByDate(SubSeq(ps, 1, Len(ps) - 1)))

\* The temp_ record as loadProjects formats it.
formattedTempProject(p, t) ==
    [id |-> p.id, userId |-> p.userId, slideData |-> p.slideData,
     slideCount |-> slideCountOf(p.slideData), type |-> p.type,
     createdAt |-> Stamp("Date", t), updatedAt |-> Stamp("Date", t)]

\* loadProjects: fsList is what getUserProjects returned (<<>> when it threw
\* or the database is unavailable), temps the user's sessionStorage entries in
\* Object.keys order.
loadProjects(fsList, locals, temps, uid, t) ==
    sortByDate(fsList
               \o SelectSeq(locals, LAMBDA p : p.userId = uid)
               \o [k \in DOMAIN temps |-> formattedTempProject(temps[k], t)])

\* A listing that fails as a whole when the database query fails (the
\* behaviour C15 excludes).
loadProjectsResultsFailing(docs, locals, session, uid, db, t) ==
    IF db # "ok" THEN {<<>>}
    ELSE {loadProjects(fsList, locals, temps, uid, t) :
             fsList \in getUserProjects(docs, uid),
             temps \in Perms({p \in session : p.userId = uid})}

\* The lists loadProjects can produce on the given stores.
loadProjectsResults(docs, locals, session, uid, db, t) ==
    {loadProjects(fsList, locals, temps, uid, t) :
        fsList \in (IF db = "ok" THEN getUserProjects(docs, uid) ELSE {<<>>}),
        temps \in Perms({p \in session : p.userId = uid})}

\* The dashboard after loadProjects; outcome records whether the query of
\* getUserProjects succeeded (the code only logs it), or that getDocs has not
\* answered and loadProjects stays at its await ("loading").
dashboardView(uid, projects, last, db) ==
    [NoView EXCEPT !.kind = "dashboard", !.uid = uid, !.projects = projects, !.last = last,
                   !.queried = TRUE,
                   !.outcome = IF db = "ok" THEN "loaded"
                               ELSE IF db = "pending" THEN "loading"
                               ELSE "degraded"]

LoadProjects(uid, db) ==
    /\ IF db = "pending"
         THEN view' = dashboardView(uid, <<>>, "none", db)
         ELSE \E ps \in loadProjectsResults(fsDocs, localProjects, sessionStore, uid, db, now) :
                 view' = dashboardView(uid, ps, "none", db)
    /\ UNCHANGED <<viewer, pureCall, now, gen, cp, fsDocs, fsNext, projectCount, localProjects, sessionStore>>

\* handleDeleteProject(projectId) for a project of the displayed list, the
\* confirm dialog accepted.  del / cnt: how deleteDoc and the counter
\* decrement of deleteProject end; db: how the reload's query ends ("pending":
\* the request is never answered and the handler stays at that await).  The
\* view keeps the id the handler was called for.
HandleDeleteProject(id, del, cnt, db) ==
    /\ view.kind = "dashboard"
    /\ \E k \in DOMAIN view.projects : view.projects[k].id = id
    /\ sessionStore' =
          IF startsWith(id, "temp_") THEN {p \in sessionStore : p.id # id} ELSE sessionStore
    /\ localProjects' =
          IF ~startsWith(id, "temp_") /\ startsWith(id, "local_")
            THEN SelectSeq(localProjects, LAMBDA p : p.id # id)
            ELSE localProjects
    /\ fsDocs' =
          IF ~startsWith(id, "temp_") /\ ~startsWith(id, "local_") /\ del = "ok"
            THEN {d \in fsDocs : d.id # id}
            ELSE fsDocs
    /\ projectCount' =
          IF ~startsWith(id, "temp_") /\ ~startsWith(id, "local_") /\ del = "ok" /\ cnt = "ok"
            THEN [projectCount EXCEPT ![view.uid] = @ - 1]
            ELSE projectCount
    /\ projectCount'[view.uid] >= -MaxUncounted
    /\ IF ~startsWith(id, "temp_") /\ ~startsWith(id, "local_")
             /\ (del = "pending" \/ (del = "ok" /\ cnt = "pending"))
         THEN view' = [view EXCEPT !.last = "deleting", !.id = id]
       ELSE IF ~startsWith(id, "temp_") /\ ~startsWith(id, "local_") /\ (del # "ok" \/ cnt # "ok")
         THEN view' = [view EXCEPT !.last = "delete failed", !.id = id]
       ELSE IF db = "pending"
         THEN view' = [view EXCEPT !.last = "reloading", !.id = id, !.outcome = "loading"]
         ELSE \E ps \in loadProjectsResults(fsDocs', localProjects', sessionStore',
                                            view.uid, db, now) :
                 view' = [dashboardView(view.uid, ps, "deleted", db) EXCEPT !.id = id]
    /\ UNCHANGED <<viewer, pureCall, now, gen, cp, fsNext>>

\* -------------------------------------------------------------- SlideViewer
\* The decks a SlideViewer is given: slide lists of 0..MaxDeck slides (slides
\* named by their position in the deck they come from).
ViewerDecks == {[k \in 1..n |-> k] : n \in 0..MaxDeck}

\* slideData.slides[index] is a slide.
slideExists(slides, index) == index + 1 \in DOMAIN slides

\* A render after a state or prop change.  The keydown effect has the
\* dependencies [isPresenting, currentSlide]: when one of them changed it
\* registers the handleKeyPress of this render (closing over this render's
\* currentSlide and slideData), otherwise the registered one stays.  In
\* presenting mode the render calls renderSlide(slideData.slides[currentSlide]),
\* which throws on undefined (slide.styling).
render(old, new) ==
    LET depsChanged ==
            old.isPresenting # new.isPresenting \/ old.currentSlide # new.currentSlide
        crashes == new.isPresenting /\ ~slideExists(new.slides, new.currentSlide)
        listener ==
            IF crashes THEN NoViewer.listener
            ELSE IF ~depsChanged THEN old.listener
            ELSE IF new.isPresenting
              THEN [on |-> TRUE, currentSlide |-> new.currentSlide, length |-> Len(new.slides)]
              ELSE NoViewer.listener
    IN [new EXCEPT !.listener = listener, !.crashed = crashes]

\* nextSlide / prevSlide / setCurrentSlide(index) of the render whose
\* currentSlide and slideData.slides.length are cur and length.
nextSlide(cur, length, v) == IF cur < length - 1 THEN [v EXCEPT !.currentSlide = cur + 1] ELSE v
prevSlide(cur, v) == IF cur > 0 THEN [v EXCEPT !.currentSlide = cur - 1] ELSE v

Settle(new) == viewer' = render(viewer, new)

\* The chevron buttons (of the toolbar or of the presentation controls).
ClickNext ==
    /\ viewer.mounted /\ ~viewer.crashed
    /\ Settle([nextSlide(viewer.currentSlide, Len(viewer.slides), viewer) EXCEPT !.last = "next"])
    /\ UNCHANGED <<pureCall, now, gen, cp, fsDocs, fsNext, projectCount, localProjects, sessionStore, view>>

ClickPrev ==
    /\ viewer.mounted /\ ~viewer.crashed
    /\ Settle([prevSlide(viewer.currentSlide, viewer) EXCEPT !.last = "prev"])
    /\ UNCHANGED <<pureCall, now, gen, cp, fsDocs, fsNext, projectCount, localProjects, sessionStore, view>>

\* A thumbnail of the normal view: setCurrentSlide(index).
ClickThumbnail(index) ==
    /\ viewer.mounted /\ ~viewer.crashed
    /\ ~viewer.isPresenting
    /\ slideExists(viewer.slides, index)
    /\ Settle([viewer EXCEPT !.currentSlide = index, !.last = "thumbnail"])
    /\ UNCHANGED <<pureCall, now, gen, cp, fsDocs, fsNext, projectCount, localProjects, sessionStore, view>>

\* The Present button, and the Pause button of the presentation controls.
ClickPresent ==
    /\ viewer.mounted /\ ~viewer.crashed
    /\ ~viewer.isPresenting
    /\ Settle([viewer EXCEPT !.isPresenting = TRUE, !.last = "present"])
    /\ UNCHANGED <<pureCall, now, gen, cp, fsDocs, fsNext, projectCount, localProjects, sessionStore, view>>

ClickPause ==
    /\ viewer.mounted /\ ~viewer.crashed
    /\ viewer.isPresenting
    /\ Settle([viewer EXCEPT !.isPresenting = FALSE, !.last = "pause"])
    /\ UNCHANGED <<pureCall, now, gen, cp, fsDocs, fsNext, projectCount, localProjects, sessionStore, view>>

\* A keydown event reaches the registered handleKeyPress.
KeyDown(key) ==
    /\ viewer.mounted /\ ~viewer.crashed
    /\ viewer.listener.on
    /\ LET l == viewer.listener
       IN IF key \in {"ArrowRight", " "}
            THEN Settle([nextSlide(l.currentSlide, l.length, viewer) EXCEPT !.last = "next"])
          ELSE IF key = "ArrowLeft"
            THEN Settle([prevSlide(l.currentSlide, viewer) EXCEPT !.last = "prev"])
          ELSE IF key = "Escape"
            THEN Settle([viewer EXCEPT !.isPresenting = FALSE, !.last = "pause"])
          ELSE Settle([viewer EXCEPT !.last = "key"])
    /\ UNCHANGED <<pureCall, now, gen, cp, fsDocs, fsNext, projectCount, localProjects, sessionStore, view>>

\* The parent's setSlideData(updatedSlideData): the component gets a new
\* slideData prop and keeps its state.
ReplaceSlideData(slides) ==
    /\ viewer.mounted /\ ~viewer.crashed
    /\ Settle([viewer EXCEPT !.slides = slides, !.last = "replace"])
    /\ UNCHANGED <<pureCall, now, gen, cp, fsDocs, fsNext, projectCount, localProjects, sessionStore, view>>

\* ---------------------------------------------------------- pure functions
\* The map of generateSlides over the slides of a parsed response.
Normalize ==
    /\ pureCall.op = "normalize"
    /\ ~pureCall.done
    /\ pureCall' = [pureCall EXCEPT !.done = TRUE, !.normalized = normalizeSlides(pureCall.slides)]
    /\ UNCHANGED <<viewer, now, gen, cp, fsDocs, fsNext, projectCount, localProjects, sessionStore, view>>

\* generateFallbackSlides(prompt, isDayPlanner)
Synthesize ==
    /\ pureCall.op = "synthesize"
    /\ ~pureCall.done
    /\ pureCall' = [pureCall EXCEPT !.done = TRUE,
                      !.deck = generateFallbackSlides(pureCall.prompt, pureCall.isDayPlanner)]
    /\ UNCHANGED <<viewer, now, gen, cp, fsDocs, fsNext, projectCount, localProjects, sessionStore, view>>

\* renderSlide(slide) of a SlideViewer whose slideData has the theme.
Render ==
    /\ pureCall.op = "render"
    /\ ~pureCall.done
    /\ pureCall' = [pureCall EXCEPT !.done = TRUE,
                      !.layout = renderSlide(pureCall.slide, pureCall.theme)]
    /\ UNCHANGED <<viewer, now, gen, cp, fsDocs, fsNext, projectCount, localProjects, sessionStore, view>>

\* generateContent(prompt, type) up to the request of generateSlides: the user
\* message that is sent (today is the date of the call).
SendRequest ==
    /\ pureCall.op = "request"
    /\ ~pureCall.done
    /\ pureCall' = [pureCall EXCEPT !.done = TRUE,
                      !.message = userMessage(pureCall.apiKey,
                                              generationPrompt(pureCall.prompt, pureCall.type,
                                                               PlannerDate))]
    /\ UNCHANGED <<viewer, now, gen, cp, fsDocs, fsNext, projectCount, localProjects, sessionStore, view>>

\* ------------------------------------------------------------- environment
Tick ==
    /\ now < MaxClock
    /\ now' = now + 1
    /\ UNCHANGED <<viewer, pureCall, gen, cp, fsDocs, fsNext, projectCount, localProjects, sessionStore, view>>

\* The ids a user can open: those of stored records and ones no store holds.
PageIds ==
    {Id("", k) : k \in 1..NumInv} \cup {Id(pf, t) : pf \in {"local_", "temp_"}, t \in 1..MaxClock}

\* The deck an AI-chat edit hands to handleSlideUpdate.
EditedDeck == Deck("edited", "Edited title", <<"content">>)

WriteErrors == {"unavailable", "permission-denied"}

\* How a database request ends: answered, or rejected (by the database or by
\* the deadline timer it is raced against; the callers treat both alike).
DbOutcomes == {"ok", "failed"}

\* One generation request with every input, and the pages reading the stores.
Next ==
    \/ \E u \in Users, k \in ApiKeys, ty \in Types : StartGenerate(1, u, k, ty)
    \/ \E r \in Responses : RequestSettles(1, r)
    \/ RequestTimerFires(1)
    \/ AddDocSucceeds(1)
    \/ \E c \in WriteErrors, ok \in BOOLEAN : AddDocFails(1, c, ok)
    \/ \E ok \in BOOLEAN : WriteTimerFires(1, ok)
    \/ SaveTimerFires(1)
    \/ \E ok \in BOOLEAN : CounterSettles(1, ok)
    \/ CounterTimerFires(1)
    \/ \E id \in PageIds, u \in Users, db \in DbOutcomes : LoadPresentation(id, u, db)
    \/ \E db \in DbOutcomes : HandleSlideUpdate(EditedDeck, db)
    \/ \E u \in Users, db \in DbOutcomes : LoadProjects(u, db)
    \/ \E id \in PageIds, del \in DbOutcomes, cnt \in DbOutcomes, db \in DbOutcomes :
          HandleDeleteProject(id, del, cnt, db)
    \/ Tick

Spec == Init /\ [][Next]_vars

\* Two concurrent generation requests (demo mode) while the document database
\* rejects or never answers every request, and the pages reading the stores.
OfflineNext ==
    \/ \E i \in Inv, u \in Users, ty \in Types : StartGenerate(i, u, "demo-key", ty)
    \/ \E i \in Inv : AddDocFails(i, "unavailable", TRUE)
    \/ \E i \in Inv : WriteTimerFires(i, TRUE)
    \/ \E i \in Inv : SaveTimerFires(i)
    \/ \E id \in PageIds, u \in Users : LoadPresentation(id, u, "failed")
    \/ HandleSlideUpdate(EditedDeck, "failed")
    \/ \E u \in Users : LoadProjects(u, "failed")
    \/ \E id \in PageIds : HandleDeleteProject(id, "failed", "failed", "failed")
    \/ Tick

OfflineSpec == Init /\ [][OfflineNext]_vars

\* A database that may leave any request unanswered: one generation request
\* (demo mode) and the pages.  The timers the code arms do fire.
HangOutcomes == DbOutcomes \cup {"pending"}

HangNext ==
    \/ \E ty \in Types : StartGenerate(1, "u1", "demo-key", ty)
    \/ AddDocSucceeds(1)
    \/ AddDocFails(1, "unavailable", TRUE)
    \/ WriteTimerFires(1, TRUE)
    \/ SaveTimerFires(1)
    \/ \E ok \in BOOLEAN : CounterSettles(1, ok)
    \/ CounterTimerFires(1)
    \/ \E id \in PageIds, db \in DbOutcomes : LoadPresentation(id, "u1", db)
    \/ \E db \in HangOutcomes : HandleSlideUpdate(EditedDeck, db)
    \/ \E db \in HangOutcomes : LoadProjects("u1", db)
    \/ \E id \in PageIds, del \in HangOutcomes, cnt \in HangOutcomes, db \in HangOutcomes :
          HandleDeleteProject(id, del, cnt, db)
    \/ Tick

HangSpec ==
    /\ Init
    /\ [][HangNext]_vars
    /\ WF_vars(SaveTimerFires(1))
    /\ WF_vars(WriteTimerFires(1, TRUE))
    /\ WF_vars(CounterTimerFires(1))

\* One page visit by one user: the effect's invocation, and the invocations
\* the user starts with 'Try Again' after a failure.
RetryNext ==
    \/ \E k \in ApiKeys, ty \in Types : StartGenerate(1, "u1", k, ty)
    \/ \E i, j \in Inv : TryAgain(i, j)
    \/ \E i \in Inv, r \in Responses : RequestSettles(i, r)
    \/ \E i \in Inv : RequestTimerFires(i)
    \/ \E i \in Inv : AddDocSucceeds(i)
    \/ \E i \in Inv : AddDocFails(i, "unavailable", TRUE)
    \/ \E i \in Inv : WriteTimerFires(i, TRUE)
    \/ \E i \in Inv : SaveTimerFires(i)
    \/ \E i \in Inv, ok \in BOOLEAN : CounterSettles(i, ok)
    \/ \E i \in Inv : CounterTimerFires(i)

RetrySpec == Init /\ [][RetryNext]_vars

\* A SlideViewer mounted by the presentation page with slideData.slides, its
\* controls and keys, and the parent replacing the deck.
ViewerInit ==
    /\ PipelineInit
    /\ pureCall = NoCall
    /\ viewer \in {[NoViewer EXCEPT !.mounted = TRUE, !.slides = slides] : slides \in ViewerDecks}

ViewerNext ==
    \/ ClickNext
    \/ ClickPrev
    \/ \E index \in 0..(MaxDeck - 1) : ClickThumbnail(index)
    \/ ClickPresent
    \/ ClickPause
    \/ \E key \in {"ArrowRight", " ", "ArrowLeft", "Escape", "Enter"} : KeyDown(key)
    \/ \E slides \in ViewerDecks : ReplaceSlideData(slides)

ViewerSpec == ViewerInit /\ [][ViewerNext]_vars

\* One call of a pure function on each of its inputs.
FunctionInit ==
    /\ PipelineInit
    /\ viewer = NoViewer
    /\ pureCall \in
          {[NoCall EXCEPT !.op = "normalize", !.slides = l] : l \in ProviderSlideLists}
            \cup {[NoCall EXCEPT !.op = "synthesize", !.prompt = q, !.isDayPlanner = b] :
                     q \in Prompts, b \in BOOLEAN}
            \cup {[NoCall EXCEPT !.op = "render", !.slide = sl, !.theme = t] :
                     sl \in RenderSlides, t \in Themes}
            \cup {[NoCall EXCEPT !.op = "request", !.apiKey = k, !.prompt = q] :
                     k \in ApiKeys, q \in Prompts}
            \cup {[NoCall EXCEPT !.op = "request", !.apiKey = k, !.type = "planner",
                                 !.tasks = ts, !.prompt = plannerPrompt(ts, PlannerDate)] :
                     k \in ApiKeys, ts \in PlannerTasks}

FunctionNext ==
    \/ Normalize
    \/ Synthesize
    \/ Render
    \/ SendRequest

FunctionSpec == FunctionInit /\ [][FunctionNext]_vars

\* ------------------------------------------------------------------ claims
\* The save step of invocation i and every write it issued have settled.
SaveSettled(i) ==
    /\ gen[i].pc = "done"
    /\ cp[i].pc \in {"returned", "threw"}
    /\ cp[i].write # "pending"
    /\ cp[i].cnt # "pending"

\* The tiers holding a Project record of invocation i's deck.
TiersHolding(i) ==
    {t \in {"firestore", "local", "session"} :
        \/ t = "firestore" /\ \E d \in fsDocs : d.slideData = gen[i].gs.deck
        \/ t = "local" /\ \E k \in DOMAIN localProjects :
                              localProjects[k].slideData = gen[i].gs.deck
        \/ t = "session" /\ \E p \in sessionStore : p.slideData = gen[i].gs.deck}

\* C1: once the save step of a generation request and every write it issued
\* have settled (and no page has deleted or edited anything), the deck is
\* stored in exactly one of the three tiers.
C1_ExactlyOneTier ==
    \A i \in Inv : (SaveSettled(i) /\ view = NoView) => Cardinality(TiersHolding(i)) = 1

C3_LocalFallbackReadBack ==
    [][\A i \in Inv : (cp[i].pc = "addDoc" /\ cp'[i].pc # "addDoc") =>
          /\ cp'[i].pc = "returned"
          /\ startsWith(cp'[i].ret, "local_")
          /\ getProject(localProjects', fsDocs', cp'[i].ret) # {}
          /\ \A p \in getProject(localProjects', fsDocs', cp'[i].ret) :
                p.slideData = gen[i].gs.deck]_vars

\* C4: a read by id queries the document database iff the id carries neither
\* the temp_ nor the local_ prefix, also when the local store has no record.
C4_ReadRoutedByPrefix ==
    (view.kind = "presentation" /\ view.last = "none") =>
        (view.queried <=> view.id.pfx = "")

\* C5: an update of a local_ / temp_ project issues no database request,
\* leaves the database unchanged and is returned by a later read of the id;
\* an update of an unprefixed id that succeeds stores the deck in the
\* document with updatedAt refreshed.
C5_UpdateRoutedByPrefix ==
    [][(view' # view /\ view'.kind = "presentation"
          /\ view'.last \in {"saved", "save failed"}) =>
          IF view'.id.pfx \in {"local_", "temp_"}
            THEN /\ ~view'.queried
                 /\ fsDocs' = fsDocs
                 /\ loadPresentation(sessionStore', localProjects', fsDocs',
                                     view'.id, view'.uid, "ok").deck = view'.deck
            ELSE view'.last = "saved" =>
                    \E d \in fsDocs' : /\ d.id = view'.id
                                       /\ d.slideData = view'.deck
                                       /\ d.updatedAt = Stamp("Timestamp", now)]_vars

\* The sequence without its k-th element.
RemoveAt(seq, k) == SubSeq(seq, 1, k - 1) \o SubSeq(seq, k + 1, Len(seq))

\* C6: a delete removes, by the id's prefix, exactly that sessionStorage
\* entry, exactly that one localStorage record, or the Firestore document
\* with the owner's projectCount decremented by 1; no other tier changes and
\* after a successful delete the id is no longer listed.
C6_DeleteRoutedByPrefix ==
    [][(view' # view /\ view'.kind = "dashboard"
          /\ view'.last \in {"deleted", "delete failed"}) =>
          /\ startsWith(view'.id, "temp_") =>
                /\ sessionStore' = {p \in sessionStore : p.id # view'.id}
                /\ UNCHANGED <<localProjects, fsDocs, projectCount>>
          /\ startsWith(view'.id, "local_") =>
                /\ \E k \in DOMAIN localProjects :
                      /\ localProjects[k].id = view'.id
                      /\ localProjects' = RemoveAt(localProjects, k)
                /\ UNCHANGED <<sessionStore, fsDocs, projectCount>>
          /\ view'.id.pfx = "" =>
                /\ fsDocs' \in {fsDocs, {d \in fsDocs : d.id # view'.id}}
                /\ fsDocs' # fsDocs =>
                      projectCount' = [projectCount EXCEPT ![view.uid] = @ - 1]
                /\ fsDocs' = fsDocs => projectCount' = projectCount
                /\ UNCHANGED <<sessionStore, localProjects>>
          /\ view'.last = "deleted" =>
                \A k \in DOMAIN view'.projects : view'.projects[k].id # view'.id]_vars

\* The instant a record was created: Date.now() of the id for the local tiers,
\* the server time of creation for a Firestore document.
ActualCreation(p) == IF p.id.pfx \in {"local_", "temp_"} THEN p.id.n ELSE p.createdAt.t

\* C7: the list loadProjects displays holds the owner's records of the three
\* tiers and is ordered by actual creation time, newest first.
C7_ListMergedNewestFirst ==
    [][(view' # view /\ view'.kind = "dashboard" /\ view'.last \in {"none", "deleted"}) =>
          /\ \A a, b \in DOMAIN view'.projects :
                a < b => ActualCreation(view'.projects[a]) >= ActualCreation(view'.projects[b])
          /\ view'.outcome = "loaded" =>
                Len(view'.projects) =
                    Cardinality({d \in fsDocs' : d.userId = view'.uid})
                      + Len(SelectSeq(localProjects', LAMBDA p : p.userId = view'.uid))
                      + Cardinality({p \in sessionStore' : p.userId = view'.uid})]_vars

\* C8: a response lacking slides or title reaches the caller as the
\* InvalidSchema failure, and the page does not show it as an invalid API key.
C8_InvalidSchemaPreserved ==
    \A i \in Inv : gen[i].resp.kind \in {"noslides", "notitle"} =>
        /\ gen[i].gs = Thrown(MsgInvalidStructure)
        /\ gen[i].shown # PageMsgInvalidKey

\* C9: when the 45 s timer wins, generateSlides throws the Timeout failure
\* and nothing else; a later completion of the request is ignored: no deck is
\* returned, createProject is not called and nothing is stored.
C9_TimerWinsTimeoutOnly ==
    \A i \in Inv : gen[i].resp.kind = "timer" =>
        /\ gen[i].gs = Thrown(MsgTimedOut)
        /\ gen[i].pc = "error"
        /\ gen[i].projectId = NoId
        /\ cp[i] = IdleCp
        /\ fsDocs = {} /\ localProjects = <<>> /\ sessionStore = {}

C9_LateCompletionIgnored ==
    /\ gen[1].resp.kind = "timer"
    /\ gen[1].req = "settled"
    /\ gen[1].gs = Thrown(MsgTimedOut)

\* The failure the taxonomy assigns to a provider status.
StatusFailure(status) ==
    CASE status = 401 -> MsgInvalidKey
      [] status = 429 -> MsgRateLimit
      [] status = 500 -> MsgServiceError
      [] status = 400 -> MsgBadRequest

\* C10: a provider error with status 401, 429, 500 or 400 is thrown as the
\* failure of that status, whatever its message text contains.
C10_StatusDecidesFailure ==
    \A i \in Inv :
        (gen[i].resp.kind = "error" /\ gen[i].resp.status \in {401, 429, 500, 400}) =>
            gen[i].gs = Thrown(StatusFailure(gen[i].resp.status))

\* The fixed default of a normalized field for the slide at 1-based position n.
FixedDefault(f, n) ==
    CASE f = "id" -> n
      [] f = "type" -> "content"
      [] f = "title" -> SlideLabels[n]
      [] f = "content" -> <<>>
      [] f = "animation" -> "fadeIn"
      [] f \in {"subtitle", "speakerNotes"} -> ""

\* C11: after normalization every slide has each of the seven fields; a field
\* the provider left out has its fixed default, and every key the provider
\* supplied (extra keys and falsy values included) keeps its supplied value.
C11_NormalizationFillsOnlyMissing ==
    (pureCall.op = "normalize" /\ pureCall.done) =>
        /\ Len(pureCall.normalized) = Len(pureCall.slides)
        /\ \A k \in DOMAIN pureCall.slides :
              /\ DOMAIN pureCall.normalized[k] = NormalizedFields \cup DOMAIN pureCall.slides[k]
              /\ \A f \in DOMAIN pureCall.slides[k] :
                    pureCall.normalized[k][f] = pureCall.slides[k][f]
              /\ \A f \in NormalizedFields \ DOMAIN pureCall.slides[k] :
                    pureCall.normalized[k][f] = FixedDefault(f, k)

C11_FalsyIdKeptTitleDefaulted ==
    /\ pureCall.op = "normalize"
    /\ pureCall.done
    /\ \E k \in DOMAIN pureCall.slides :
          /\ "id" \in DOMAIN pureCall.slides[k]
          /\ pureCall.slides[k].id = 0
          /\ pureCall.normalized[k].id = 0
          /\ "title" \notin DOMAIN pureCall.slides[k]
          /\ pureCall.normalized[k].title = SlideLabels[k]
          /\ "layout" \in DOMAIN pureCall.normalized[k]

\* C12: createProject writes the local_ record only when the database write
\* fails as unavailable or its 15 s deadline expires; any other rejection is
\* propagated and nothing is written to localStorage.
C12_FallbackOnlyWhenUnavailable ==
    [][\A i \in Inv :
          (cp[i].pc = "addDoc" /\ cp'[i].pc \in {"returned", "threw"}
             /\ cp'[i].write \notin {"pending", "unavailable"}) =>
              (cp'[i].pc = "threw" /\ localProjects' = localProjects)]_vars

\* C13: once createProject has seen its database write succeed, the outcome
\* of the counter increment does not change the result: the call returns the
\* document id and no local_ record of the deck is written.
C13_CounterNeverFailsCreate ==
    \A i \in Inv : cp[i].cnt # "none" =>
        /\ cp[i].pc \in {"counter", "returned"}
        /\ cp[i].pc = "returned" => (cp[i].ret = cp[i].docId /\ cp[i].docId.pfx = "")
        /\ \A k \in DOMAIN localProjects : localProjects[k].slideData # gen[i].gs.deck

C13_ReturnedAfterCounterRejected ==
    /\ cp[1].pc = "returned"
    /\ cp[1].cnt = "failed"
    /\ cp[1].ret = Id("", 1)
    /\ gen[1].projectId = Id("", 1)

\* A page handler is suspended at a database request.
ViewPending ==
    \/ view.last \in {"saving", "deleting", "reloading"}
    \/ view.outcome = "loading"

\* C14: every database-dependent operation settles even if the database
\* never answers: a pending createProject returns or throws, and a page
\* handler waiting for updateProject, deleteProject or getUserProjects goes on.
C14_EveryOperationSettles ==
    /\ \A i \in Inv : (cp[i].pc \in {"addDoc", "counter"}) ~> (cp[i].pc \in {"returned", "threw"})
    /\ ViewPending ~> ~ViewPending

\* C15: when the database query fails while the projects are listed, the
\* dashboard shows no error and the list holds exactly the owner's local_ and
\* temp_ records.
C15_ListDegradesToLocalTiers ==
    [][(view' # view /\ view'.kind = "dashboard" /\ view'.last \in {"none", "deleted"}
          /\ view'.outcome # "loaded") =>
          /\ view'.outcome = "degraded"
          /\ \A k \in DOMAIN view'.projects :
                /\ view'.projects[k].id.pfx \in {"local_", "temp_"}
                /\ view'.projects[k].userId = view'.uid
          /\ Len(view'.projects) =
                Len(SelectSeq(localProjects', LAMBDA p : p.userId = view'.uid))
                  + Cardinality({p \in sessionStore' : p.userId = view'.uid})
          /\ \A j \in DOMAIN localProjects' :
                localProjects'[j].userId = view'.uid =>
                    \E k \in DOMAIN view'.projects : view'.projects[k] = localProjects'[j]
          /\ \A p \in sessionStore' :
                p.userId = view'.uid =>
                    \E k \in DOMAIN view'.projects :
                        /\ view'.projects[k].id = p.id
                        /\ view'.projects[k].slideData = p.slideData]_vars

C15_DegradedListHoldsBothTiers ==
    /\ view.kind = "dashboard"
    /\ view.outcome = "degraded"
    /\ \E a, b \in DOMAIN view.projects :
          /\ view.projects[a].id.pfx = "local_"
          /\ view.projects[b].id.pfx = "temp_"

\* The Project records of the three tiers.
StoredRecords ==
    fsDocs \cup {localProjects[k] : k \in DOMAIN localProjects} \cup sessionStore

\* C16: every stored Project record carries a slideCount equal to the number
\* of slides of its slideData.
C16_SlideCountMatchesSlides ==
    \A p \in StoredRecords :
        /\ "slideCount" \in DOMAIN p
        /\ p.slideCount = Len(p.slideData.slides)

\* C18: every deck generateSlides returns, and so every deck handed to
\* createProject, has at least one slide.
C18_ReturnedDeckNonEmpty ==
    \A i \in Inv : gen[i].gs.ok => Len(gen[i].gs.deck.slides) > 0

\* C17: in every deck of the remote path the slide at 1-based position k has
\* id k, whatever ids the provider supplied or omitted.
C17_RemoteIdsMatchPosition ==
    (pureCall.op = "normalize" /\ pureCall.done) =>
        \A k \in DOMAIN pureCall.normalized : pureCall.normalized[k].id = k

\* C19: every synthesized deck, of either kind, has slide ids 1..n in order
\* and as many slides as the strategy selected for the prompt has templates.
C19_SynthesizedIdsAndCount ==
    (pureCall.op = "synthesize" /\ pureCall.done) =>
        /\ \A k \in DOMAIN pureCall.deck.slides : pureCall.deck.slides[k].id = k
        /\ Len(pureCall.deck.slides) = Len(contentStrategy(presentationType(pureCall.prompt)))

\* C20: the prompt "Create a presentation about sustainable business
\* practices" is classified 'informational' and gives 8 slides, the first
\* one's title containing the extracted subject.
C20_SustainablePromptInformational ==
    (pureCall.op = "synthesize" /\ pureCall.done /\ ~pureCall.isDayPlanner
       /\ pureCall.prompt = PromptSustainable) =>
        /\ presentationType(pureCall.prompt) = "informational"
        /\ Len(pureCall.deck.slides) = 8
        /\ pureCall.deck.slides[1].title.subject = extractMainSubject(pureCall.prompt)
        /\ extractMainSubject(pureCall.prompt) # <<>>

NamedTypes == {"hero", "title", "split", "quote", "stats", "image-focus", "content"}

OverlayOpacity(overlay) == IF overlay = "dark" THEN 6 ELSE 3

\* C30: the layout has an overlay exactly when the background treatment is an
\* image and styling.overlay is 'dark' or 'light', with opacity 0.6 / 0.3.
C30_OverlayOnlyOnImage ==
    (pureCall.op = "render" /\ pureCall.done) =>
        LET overlay == pureCall.slide.styling.overlay
            onImage == pureCall.layout.background.fill.kind = "image"
        IN /\ pureCall.layout.overlay.present <=> (onImage /\ overlay \in {"dark", "light"})
           /\ pureCall.layout.overlay.present =>
                 pureCall.layout.overlay.opacity = OverlayOpacity(overlay)

\* C22: the viewer starts on the first slide; in a deck that has slides,
\* 'next' away from the last slide shows the slide at index + 1 and 'previous'
\* away from the first shows the one at index - 1; 'next' at the last and
\* 'previous' at the first slide change nothing.
C22_NavigationMovesByOne ==
    /\ viewer.mounted => viewer.currentSlide = 0
    /\ [][LET cur == viewer.currentSlide
              length == Len(viewer.slides)
          IN /\ (viewer' # viewer /\ viewer'.last = "next" /\ length > 0) =>
                    IF cur # length - 1
                      THEN /\ viewer'.currentSlide = cur + 1
                           /\ slideExists(viewer'.slides, cur + 1)
                      ELSE viewer'.currentSlide = cur
             /\ (viewer' # viewer /\ viewer'.last = "prev" /\ length > 0) =>
                    IF cur # 0
                      THEN /\ viewer'.currentSlide = cur - 1
                           /\ slideExists(viewer'.slides, cur - 1)
                      ELSE viewer'.currentSlide = cur]_vars

\* C24: currentSlide is always an index of slideData.slides, and the render
\* of the presenting mode never finds its slide missing.
C24_CurrentSlideIsValidIndex ==
    viewer.mounted =>
        /\ slideExists(viewer.slides, viewer.currentSlide)
        /\ ~viewer.crashed

\* C25: deleteProject reports a failure only when it did not delete the
\* project document; a failed counter decrement alone does not fail it.
C25_DeleteFailsOnlyIfDocumentKept ==
    [][(view' # view /\ view'.kind = "dashboard" /\ view'.id.pfx = ""
          /\ view'.last = "delete failed") =>
          fsDocs' = fsDocs]_vars

\* C26: no two records of local_projects share an id, and getProject of a
\* record's id returns that record.
C26_LocalIdsUnique ==
    \A a, b \in DOMAIN localProjects :
        /\ a # b => localProjects[a].id # localProjects[b].id
        /\ getProject(localProjects, fsDocs, localProjects[a].id) = {localProjects[a]}

\* C27: when the record stored under the id the presentation page opens
\* belongs to another user, the page shows an error and sets no deck.
C27_OnlyOwnerSeesProject ==
    [][(view' # view /\ view'.kind = "presentation" /\ view'.last = "none") =>
          \A p \in StoredRecords :
              (p.id = view'.id /\ p.userId # view'.uid) =>
                  /\ view'.outcome \in {"denied", "error"}
                  /\ view'.deck = NoDeck]_vars

\* C28: the user message sent to the service holds the prompt passed to the
\* generate page; for a planner, every task the user entered is part of it.
C28_PagePromptReachesService ==
    (pureCall.op = "request" /\ pureCall.done /\ pureCall.message.sent) =>
        /\ strIncludes(pureCall.message.content, pureCall.prompt)
        /\ \A k \in DOMAIN pureCall.tasks :
              strIncludes(pureCall.message.content, <<pureCall.tasks[k].title>>)

\* C29: in every deck of generateFallbackSlides, a stats, content or split
\* slide's content is a list, a quote slide's content is one string, the
\* first line of the generated list, and a hero slide has no content.
C29_FallbackContentShapes ==
    (pureCall.op = "synthesize" /\ pureCall.done) =>
        \A k \in DOMAIN pureCall.deck.slides :
            LET slide == pureCall.deck.slides[k]
                foci == strategyFoci(presentationType(pureCall.prompt))
            IN /\ slide.type \in {"stats", "content", "split"} => slide.content.kind = "list"
               /\ slide.type = "quote" =>
                      /\ slide.content.kind = "string"
                      /\ slide.content.items = <<generateSlideContent(foci[k])[1]>>
               /\ slide.type = "hero" => slide.content = NoContent

====
